---- MODULE Spec2Model ----
(***************************************************************************)
(* Handler storage of the TTN handler component                            *)
(* (core/components/handler_storage.go): the session registry              *)
(* (Lookup / Store / Reset over a bolt bucket keyed by device address)     *)
(* and the Partition method that resolves packets sharing a device         *)
(* address to the entry whose network session key validates their MIC.     *)
(*                                                                         *)
(* The storage helpers (store, lookup, resetDB, newEntryReadWriter) live   *)
(* in a file of the repository that is not part of the sources at hand;    *)
(* they are modelled from the specification (sections 4.1, 4.2, 5, 6).     *)
(***************************************************************************)
EXTENDS Integers, Sequences, FiniteSets, TLC

(***************************************************************************)
(* Bounds of the model.                                                    *)
(***************************************************************************)
\* Most entries held by the registry at one time, over all addresses.
MaxEntries == 2
\* Longest batch handed to one Partition call.
MaxBatch == 3

(***************************************************************************)
(* Field widths and values.                                                *)
(***************************************************************************)
EUILen  == 8
AddrLen == 4
KeyLen  == 16

Fill(n, b) == [i \in 1..n |-> b]

AppX  == Fill(EUILen, 1)
AppY  == Fill(EUILen, 2)
AddrA == Fill(AddrLen, 10)
AddrB == Fill(AddrLen, 11)
K1    == Fill(KeyLen, 21)
K2    == Fill(KeyLen, 22)
SKey  == Fill(KeyLen, 30)

AppEUIs  == {AppX, AppY}
DevAddrs == {AddrA, AddrB}
NwkSKeys == {K1, K2}

\* handlerEntry: the four fields that link an application to a device.
handlerEntry(app, skey, addr, nwk) ==
    [AppEUI |-> app, AppSKey |-> skey, DevAddr |-> addr, NwkSKey |-> nwk]

\* The entries offered to Store.  Two of them share application and device
\* address and differ in the network session key; two share the network
\* session key and differ in the application.
Entry1 == handlerEntry(AppX, SKey, AddrA, K1)
Entry2 == handlerEntry(AppY, SKey, AddrA, K2)
Entry3 == handlerEntry(AppX, SKey, AddrA, K2)
Entries == {Entry1, Entry2, Entry3}

\* The Store calls made: every entry under its own address, and the first
\* one also under AddrB, which is not its DevAddr.
StoreCalls ==
    {<<AddrA, Entry1>>, <<AddrA, Entry2>>, <<AddrA, Entry3>>, <<AddrB, Entry1>>}

ZeroEntry ==
    handlerEntry(Fill(EUILen, 0), Fill(KeyLen, 0), Fill(AddrLen, 0), Fill(KeyLen, 0))

(***************************************************************************)
(* Errors.                                                                 *)
(***************************************************************************)
NoErr               == "nil"
ErrInvalidStructure == "ErrInvalidStructure"
ErrNotFound         == "ErrNotFound"
ErrStorage          == "StorageFailure"

(***************************************************************************)
(* Entry codec.  entryReadWriter writes each field behind a length prefix  *)
(* (two bytes, little endian) and reads it back the same way; the first    *)
(* failure sticks and is reported by Err().                                *)
(***************************************************************************)
LenPrefix(n) == <<n % 256, (n \div 256) % 256>>

\* entryReadWriter.Write: append one length-prefixed field.
rwWrite(buf, data) == buf \o LenPrefix(Len(data)) \o data

\* entryReadWriter.Read: take one length-prefixed field off the front.
\* Yields the field, the remaining bytes and whether the read failed.
rwRead(r) ==
    IF r.err THEN r
    ELSE IF Len(r.rest) < 2 THEN [r EXCEPT !.err = TRUE]
    ELSE LET n == r.rest[1] + 256 * r.rest[2]
         IN  IF Len(r.rest) < 2 + n THEN [r EXCEPT !.err = TRUE]
             ELSE [field |-> SubSeq(r.rest, 3, 2 + n),
                   rest  |-> SubSeq(r.rest, 3 + n, Len(r.rest)),
                   err   |-> FALSE]

\* Go's copy(dst[:], data) into a fixed array of n bytes.
CopyInto(dst, data) ==
    [i \in 1..Len(dst) |-> IF i <= Len(data) THEN data[i] ELSE dst[i]]

\* Variant: the two session keys are written in each other's place.
MarshalBinary_KeysSwapped(entry) ==
    rwWrite(rwWrite(rwWrite(rwWrite(<<>>, entry.AppEUI), entry.NwkSKey),
                    entry.DevAddr), entry.AppSKey)

\* Variant: the network session key is not written.
MarshalBinary_NoNwkSKey(entry) ==
    rwWrite(rwWrite(rwWrite(<<>>, entry.AppEUI), entry.AppSKey), entry.DevAddr)

\* handlerEntry.MarshalBinary
MarshalBinary(entry) ==
    rwWrite(rwWrite(rwWrite(rwWrite(<<>>, entry.AppEUI), entry.AppSKey),
                    entry.DevAddr), entry.NwkSKey)

\* The k-th Read call of UnmarshalBinary: the reader after the call and the
\* entry with the field copied in.  A call made after a failure does nothing.
ReadField(st, k) ==
    LET r == rwRead(st.r)
    IN  [r     |-> r,
         entry |-> IF r.err THEN st.entry
                   ELSE IF k = 1 THEN [st.entry EXCEPT !.AppEUI  = CopyInto(@, r.field)]
                   ELSE IF k = 2 THEN [st.entry EXCEPT !.AppSKey = CopyInto(@, r.field)]
                   ELSE IF k = 3 THEN [st.entry EXCEPT !.DevAddr = CopyInto(@, r.field)]
                   ELSE               [st.entry EXCEPT !.NwkSKey = CopyInto(@, r.field)]]

\* The Read calls from the k-th to the fourth, in the order of the fields.
RECURSIVE ReadFields(_, _)
ReadFields(st, k) ==
    IF k > 4 THEN st ELSE ReadFields(ReadField(st, k), k + 1)

\* handlerEntry.UnmarshalBinary, on a zero entry.
UnmarshalBinary(data) ==
    IF Len(data) < 4
    THEN [entry |-> ZeroEntry, err |-> ErrInvalidStructure]
    ELSE LET st == ReadFields([r     |-> [field |-> <<>>, rest |-> data, err |-> FALSE],
                               entry |-> ZeroEntry], 1)
         IN  [entry |-> st.entry,
              err   |-> IF st.r.err THEN ErrInvalidStructure ELSE NoErr]

(***************************************************************************)
(* Packets.  A packet exposes DevAddr() and Payload.ValidateMIC(key); both  *)
(* come from the packet library, so a packet is given by their outcomes:    *)
(* its address (or none, when DevAddr() fails) and, per network session     *)
(* key, whether the MIC check succeeds, mismatches or fails.                *)
(***************************************************************************)
\* The address of a packet that has none: DevAddr() fails on it.
NoAddr == << >>

MicK1   == (K1 :> "ok")  @@ (K2 :> "bad")
MicK2   == (K1 :> "bad") @@ (K2 :> "ok")
MicNone == (K1 :> "bad") @@ (K2 :> "bad")
MicErr  == (K1 :> "err") @@ (K2 :> "err")

\* The packets offered to Partition: for AddrA one valid under each key, one
\* valid under neither and one whose check fails; one for AddrB; and one
\* without a readable address.
Packets ==
    [addr : {AddrA}, mic : {MicK1, MicK2, MicNone, MicErr}]
        \cup {[addr |-> AddrB, mic |-> MicK1]}
        \cup {[addr |-> NoAddr, mic |-> MicNone]}

\* The error packet.DevAddr() reports for a packet without address.
ErrPacket == "packet: no DevAddr"

\* packet.DevAddr()
DevAddr(packet) ==
    [devAddr |-> packet.addr,
     err     |-> IF packet.addr = NoAddr THEN ErrPacket ELSE NoErr]

\* packet.Payload.ValidateMIC(key)
ValidateMIC(packet, key) ==
    [ok  |-> key \in DOMAIN packet.mic /\ packet.mic[key] = "ok",
     err |-> key \in DOMAIN packet.mic /\ packet.mic[key] = "err"]

BatchesOfLen(n) == [1..n -> Packets]
Batches == UNION {BatchesOfLen(n) : n \in 0..MaxBatch}

(***************************************************************************)
(* State.                                                                  *)
(***************************************************************************)
VARIABLES
    db,     \* the "applications" bucket: device address -> stored blobs
    ret,    \* the call that has just returned and what it returned
    closed, \* the storage handle has been released by Close
    hist,   \* history: entries stored with success since the last Reset
    purged, \* history: the last change of the bucket was a Reset that removed entries
    codec,  \* the codec exercised on its own: the bytes in hand and the last result
    conc,   \* concurrent callers of one storage: where each call stands
    pair    \* two Partition calls in a row on one batch: inputs and outcomes

vars == <<db, ret, closed, hist, purged, codec, conc, pair>>

EmptyBucket == [a \in DevAddrs |-> <<>>]

\* The codec holds no bytes.
CodecIdle ==
    [op |-> "none", from |-> "none", entry |-> ZeroEntry, data |-> <<>>,
     out |-> ZeroEntry, err |-> NoErr]

\* The callers that run concurrently: two that store, one that reads.
Writers == {"w1", "w2"}

\* A caller that is not in a call.
WriterIdle == [pc |-> "idle", addr |-> NoAddr, entry |-> ZeroEntry, err |-> NoErr]
ReaderIdle ==
    [pc |-> "idle", op |-> "none", addr |-> NoAddr, batch |-> <<>>, i |-> 0,
     partitions |-> << >>, seen |-> <<>>, acked |-> [e \in Entries |-> 0],
     entries |-> <<>>, res |-> <<>>, err |-> NoErr]

\* No Store has returned: per address, how often each entry was acknowledged.
NoAcks == [a \in DevAddrs |-> [e \in Entries |-> 0]]

\* No caller is in a call and no Store has returned.
ConcIdle ==
    [w |-> [c \in Writers |-> WriterIdle], r |-> ReaderIdle,
     acked |-> NoAcks, raced |-> FALSE]

\* Neither call of the pair has been made.
NoOutcome == [res |-> <<>>, err |-> NoErr]
PairIdle ==
    [phase |-> "none", batch |-> <<>>, touched |-> FALSE,
     fails1 |-> {}, out1 |-> NoOutcome, fails2 |-> {}, out2 |-> NoOutcome]

\* No call has returned that the caller has not yet consumed.
Idle ==
    [op |-> "none", addr |-> NoAddr, entry |-> ZeroEntry, batch |-> <<>>,
     entries |-> <<>>, res |-> <<>>, err |-> NoErr]

TotalEntries(bucket) ==
    LET RECURSIVE Sum(_)
        Sum(S) == IF S = {} THEN 0
                  ELSE LET a == CHOOSE x \in S : TRUE
                       IN  Len(bucket[a]) + Sum(S \ {a})
    IN  Sum(DOMAIN bucket)

(***************************************************************************)
(* Storage helpers: one transaction of the key-value engine each.  A       *)
(* transaction either takes effect and reports no error, or fails, leaves  *)
(* the bucket as it was and reports the engine's error.                    *)
(***************************************************************************)
\* initDB / the state NewHandlerStorage hands out: an empty bucket.
initDB == EmptyBucket

\* lookup(db, bucket, devAddr, shape): every entry stored under devAddr, in
\* insertion order, decoded; an empty list when there is none.
lookup(bucket, devAddr, engineOk) ==
    IF ~engineOk THEN [entries |-> <<>>, err |-> ErrStorage]
    ELSE LET raw == bucket[devAddr]
             dec == [i \in 1..Len(raw) |-> UnmarshalBinary(raw[i])]
         IN  IF \E i \in 1..Len(raw) : dec[i].err # NoErr
             THEN [entries |-> <<>>, err |-> ErrInvalidStructure]
             ELSE [entries |-> [i \in 1..Len(raw) |-> dec[i].entry],
                   err     |-> NoErr]

\* store(db, bucket, devAddr, entry): append the marshalled entry to what
\* the bucket holds under devAddr and write the collection back.
store(bucket, devAddr, entry, engineOk) ==
    IF ~engineOk THEN [db |-> bucket, err |-> ErrStorage]
    ELSE [db  |-> [bucket EXCEPT ![devAddr] = Append(@, MarshalBinary(entry))],
          err |-> NoErr]

\* resetDB(db, bucket): delete everything the bucket holds.
resetDB(bucket, engineOk) ==
    IF ~engineOk THEN [db |-> bucket, err |-> ErrStorage]
    ELSE [db |-> EmptyBucket, err |-> NoErr]

(***************************************************************************)
(* handlerBoltStorage                                                      *)
(***************************************************************************)
\* Variant: an address without entries is reported as ErrNotFound.
Lookup_EmptyIsError(bucket, devAddr, engineOk) ==
    LET r == lookup(bucket, devAddr, engineOk)
    IN  IF r.err # NoErr THEN [entries |-> <<>>, err |-> r.err]
        ELSE IF r.entries = <<>> THEN [entries |-> <<>>, err |-> ErrNotFound]
        ELSE [entries |-> r.entries, err |-> NoErr]

\* Variant: an error of the helper is swallowed.
Lookup_SwallowsError(bucket, devAddr, engineOk) ==
    LET r == lookup(bucket, devAddr, engineOk)
    IN  IF r.err # NoErr THEN [entries |-> <<>>, err |-> NoErr]
        ELSE [entries |-> r.entries, err |-> NoErr]

\* Lookup
Lookup(bucket, devAddr, engineOk) ==
    LET r == lookup(bucket, devAddr, engineOk)
    IN  IF r.err # NoErr THEN [entries |-> <<>>, err |-> r.err]
        ELSE [entries |-> r.entries, err |-> NoErr]

\* Variant: the entry goes to another bucket; "applications" does not get it.
Store_OtherBucket(bucket, devAddr, entry, engineOk) ==
    [db |-> bucket, err |-> store(bucket, devAddr, entry, engineOk).err]

\* Variant: the entry is filed under its own DevAddr field.
Store_UnderEntryAddr(bucket, devAddr, entry, engineOk) ==
    store(bucket, entry.DevAddr, entry, engineOk)

\* Store
Store(bucket, devAddr, entry, engineOk) ==
    store(bucket, devAddr, entry, engineOk)

\* Variant: another bucket is reset; "applications" keeps its entries.
Reset_OtherBucket(bucket, engineOk) ==
    [db |-> bucket, err |-> resetDB(bucket, engineOk).err]

\* Reset
Reset(bucket, engineOk) == resetDB(bucket, engineOk)

\* Close: s.DB.Close().  The handle is released unless the engine reports
\* an error.
Close(handleClosed, engineOk) ==
    IF engineOk THEN [closed |-> TRUE, err |-> NoErr]
    ELSE [closed |-> handleClosed, err |-> ErrStorage]

\* Variant: the id is built address first.
PartitionIdOf_AddrFirst(entry) == entry.DevAddr \o entry.AppEUI

\* Variant: the id is built from the device address alone.
PartitionIdOf_AddrOnly(entry) == Fill(EUILen, 0) \o entry.DevAddr

\* partitionId: AppEUI(8) | DevAddr(4)
PartitionIdOf(entry) == entry.AppEUI \o entry.DevAddr

\* Variant: a check that fails ends the candidate loop without a match.
FirstMatch_StopsAtError(packet, entries) ==
    LET Hit(i) == LET v == ValidateMIC(packet, entries[i].NwkSKey)
                  IN  ~(v.err \/ ~v.ok)
        Bad(i) == ValidateMIC(packet, entries[i].NwkSKey).err
    IN  IF \E i \in 1..Len(entries) : Hit(i) /\ \A j \in 1..(i - 1) : ~Hit(j) /\ ~Bad(j)
        THEN CHOOSE i \in 1..Len(entries) :
                 Hit(i) /\ \A j \in 1..(i - 1) : ~Hit(j)
        ELSE 0

\* Variant: the loop does not stop at a match, the last match stands.
FirstMatch_Last(packet, entries) ==
    LET Hit(i) == LET v == ValidateMIC(packet, entries[i].NwkSKey)
                  IN  ~(v.err \/ ~v.ok)
    IN  IF \E i \in 1..Len(entries) : Hit(i)
        THEN CHOOSE i \in 1..Len(entries) :
                 Hit(i) /\ \A j \in (i + 1)..Len(entries) : ~Hit(j)
        ELSE 0

\* Variant: only a failing check is skipped, a mismatch is taken as a match.
FirstMatch_IgnoresOk(packet, entries) ==
    LET Hit(i) == ~ValidateMIC(packet, entries[i].NwkSKey).err
    IN  IF \E i \in 1..Len(entries) : Hit(i)
        THEN CHOOSE i \in 1..Len(entries) :
                 Hit(i) /\ \A j \in 1..(i - 1) : ~Hit(j)
        ELSE 0

\* The candidate loop of Partition: the index of the first entry whose
\* network session key validates the packet's MIC, 0 when there is none.
\* A check that fails is skipped like one that does not validate.
FirstMatch(packet, entries) ==
    LET Hit(i) == LET v == ValidateMIC(packet, entries[i].NwkSKey)
                  IN  ~(v.err \/ ~v.ok)
    IN  IF \E i \in 1..Len(entries) : Hit(i)
        THEN CHOOSE i \in 1..Len(entries) :
                 Hit(i) /\ \A j \in 1..(i - 1) : ~Hit(j)
        ELSE 0

\* partitions[id].Packets, the empty slice when the map has no such id.
PacketsOf(partitions, id) ==
    IF id \in DOMAIN partitions THEN partitions[id].Packets ELSE <<>>

\* Variant: the packet is put in front of the ones already there.
AddPacket_Prepend(old, packet) == <<packet>> \o old

\* The slice written back for a matched packet.
AddPacket(old, packet) == Append(old, packet)

\* Variant: the candidate loop does not stop at a match; the packet is
\* filed under every candidate that validates it.
PartitionStep_NoBreak(partitions, packet, entries) ==
    LET Hit(k) == LET v == ValidateMIC(packet, entries[k].NwkSKey)
                  IN  ~(v.err \/ ~v.ok)
        File(parts, entry) ==
            LET id   == PartitionIdOf(entry)
                part == [entry   |-> entry,
                         Id      |-> id,
                         Packets |-> AddPacket(PacketsOf(parts, id), packet)]
            IN  [x \in (DOMAIN parts) \cup {id} |-> IF x = id THEN part ELSE parts[x]]
        RECURSIVE Go(_, _)
        Go(parts, k) == IF k > Len(entries) THEN parts
                        ELSE Go(IF Hit(k) THEN File(parts, entries[k]) ELSE parts, k + 1)
    IN  Go(partitions, 1)

\* Variant: a packet that no candidate validates stays with the last one.
PartitionStep_KeepsUnmatched(partitions, packet, entries) ==
    LET f == FirstMatch(packet, entries)
        m == IF f = 0 THEN Len(entries) ELSE f
    IN  IF m = 0 THEN partitions
        ELSE LET entry == entries[m]
                 id    == PartitionIdOf(entry)
                 part  == [entry   |-> entry,
                           Id      |-> id,
                           Packets |-> AddPacket(PacketsOf(partitions, id), packet)]
             IN  [x \in (DOMAIN partitions) \cup {id} |->
                     IF x = id THEN part ELSE partitions[x]]

\* The body of the packet loop once the candidates are known.
PartitionStep(partitions, packet, entries) ==
    LET m == FirstMatch(packet, entries)
    IN  IF m = 0 THEN partitions
        ELSE LET entry == entries[m]
                 id    == PartitionIdOf(entry)
                 part  == [entry   |-> entry,
                           Id      |-> id,
                           Packets |-> AddPacket(PacketsOf(partitions, id), packet)]
             IN  [x \in (DOMAIN partitions) \cup {id} |->
                     IF x = id THEN part ELSE partitions[x]]

\* Variant: the error of DevAddr() is handed on as it is.
BadPacket_Unwrapped(err) == err

\* errors.New(ErrInvalidStructure, err) for a packet without address.
BadPacket(err) == ErrInvalidStructure

\* Variant: the partitions built so far are returned with the error.
Abort_KeepsPartitions(partitions, err) == [partitions |-> partitions, err |-> err]

\* What an aborted packet loop hands back: nil and the error.
Abort(partitions, err) == [partitions |-> << >>, err |-> err]

\* Variant: a Lookup that fails is made a second time.
RECURSIVE PartitionLoop_Retries(_, _, _, _, _)
PartitionLoop_Retries(bucket, packets, fails, i, partitions) ==
    IF i > Len(packets) THEN [partitions |-> partitions, err |-> NoErr]
    ELSE LET packet == packets[i]
             d      == DevAddr(packet)
         IN  IF d.err # NoErr THEN Abort(partitions, BadPacket(d.err))
             ELSE LET l1 == Lookup(bucket, d.devAddr, i \notin fails)
                      l  == IF l1.err # NoErr THEN Lookup(bucket, d.devAddr, TRUE) ELSE l1
                  IN  IF l.err # NoErr THEN Abort(partitions, l.err)
                      ELSE PartitionLoop_Retries(bucket, packets, fails, i + 1,
                                                 PartitionStep(partitions, packet, l.entries))

\* The packet loop of Partition from packet i on; the lookups of the packets
\* at the positions in fails meet an engine failure.
RECURSIVE PartitionLoop(_, _, _, _, _)
PartitionLoop(bucket, packets, fails, i, partitions) ==
    IF i > Len(packets) THEN [partitions |-> partitions, err |-> NoErr]
    ELSE LET packet == packets[i]
             d      == DevAddr(packet)
         IN  IF d.err # NoErr THEN Abort(partitions, BadPacket(d.err))
             ELSE LET l == Lookup(bucket, d.devAddr, i \notin fails)
                  IN  IF l.err # NoErr THEN Abort(partitions, l.err)
                      ELSE PartitionLoop(bucket, packets, fails, i + 1,
                                         PartitionStep(partitions, packet, l.entries))

\* The orders in which ranging over the map can fill the result slice.
Orders(partitions) ==
    LET ids == DOMAIN partitions
        n   == Cardinality(ids)
    IN  { [i \in 1..n |-> partitions[f[i]]] :
            f \in {g \in [1..n -> ids] : \A i, j \in 1..n : i # j => g[i] # g[j]} }

\* Variant: an empty result slice is returned as it is, without an error.
PartitionResults_EmptyIsOk(bucket, packets, fails) ==
    LET out == PartitionLoop(bucket, packets, fails, 1, << >>)
    IN  {[res |-> o, err |-> out.err] : o \in Orders(out.partitions)}

\* Partition: every result the call can return.  An aborted loop returns
\* what Abort hands back along with the error; a completed loop returns the
\* slice filled from the map, or ErrNotFound when that slice is empty.
PartitionResults(bucket, packets, fails) ==
    LET out == PartitionLoop(bucket, packets, fails, 1, << >>)
    IN  IF out.err # NoErr
        THEN {[res |-> o, err |-> out.err] : o \in Orders(out.partitions)}
        ELSE IF DOMAIN out.partitions = {}
             THEN {[res |-> <<>>, err |-> ErrNotFound]}
             ELSE {[res |-> o, err |-> NoErr] : o \in Orders(out.partitions)}

(***************************************************************************)
(* Actions: one per operation of HandlerStorage.  Calls are synchronous:   *)
(* a call runs to completion, its result stands in ret until the caller    *)
(* has taken it (Return), and only then is the next call made.             *)
(***************************************************************************)
\* How a transaction of the engine can go: it takes effect or fails; on a
\* released handle it can only fail.
EngineModes == IF closed THEN {FALSE} ELSE BOOLEAN

\* The lookups of one Partition call that can meet an engine failure: none
\* or any single one; on a released handle all of them.
FailSets(packets) ==
    IF closed THEN {1..Len(packets)}
    ELSE {{}} \cup {{i} : i \in 1..Len(packets)}

Init ==
    /\ db = initDB
    /\ ret = Idle
    /\ closed = FALSE
    /\ hist = [a \in DevAddrs |-> <<>>]
    /\ purged = FALSE
    /\ codec = CodecIdle
    /\ conc = ConcIdle
    /\ pair = PairIdle

\* Variant: Lookup drains the key it reads.
DoLookup_Drains ==
    /\ ret = Idle
    /\ \E devAddr \in DevAddrs, engineOk \in EngineModes :
         LET r == Lookup(db, devAddr, engineOk)
         IN  /\ ret' = [Idle EXCEPT !.op = "Lookup", !.addr = devAddr,
                                    !.entries = r.entries, !.err = r.err]
             /\ db' = [db EXCEPT ![devAddr] = <<>>]
    /\ UNCHANGED <<closed, hist, purged, codec, conc, pair>>

DoLookup ==
    /\ ret = Idle
    /\ \E devAddr \in DevAddrs, engineOk \in EngineModes :
         LET r == Lookup(db, devAddr, engineOk)
         IN  ret' = [Idle EXCEPT !.op = "Lookup", !.addr = devAddr,
                                 !.entries = r.entries, !.err = r.err]
    /\ UNCHANGED <<db, closed, hist, purged, codec, conc, pair>>

DoStore ==
    /\ ret = Idle
    /\ TotalEntries(db) < MaxEntries
    /\ \E call \in StoreCalls, engineOk \in EngineModes :
         LET devAddr == call[1]
             entry   == call[2]
             r       == Store(db, devAddr, entry, engineOk)
         IN  /\ db' = r.db
             /\ ret' = [Idle EXCEPT !.op = "Store", !.addr = devAddr,
                                    !.entry = entry, !.err = r.err]
             /\ hist' = IF r.err = NoErr
                        THEN [hist EXCEPT ![devAddr] = Append(@, entry)]
                        ELSE hist
             /\ purged' = (purged /\ r.err # NoErr)
    /\ UNCHANGED <<closed, codec, conc, pair>>

DoReset ==
    /\ ret = Idle
    /\ \E engineOk \in EngineModes :
         LET r == Reset(db, engineOk)
         IN  /\ db' = r.db
             /\ ret' = [Idle EXCEPT !.op = "Reset", !.err = r.err]
             /\ hist' = IF r.err = NoErr THEN [a \in DevAddrs |-> <<>>] ELSE hist
             /\ purged' = IF r.err = NoErr THEN TotalEntries(db) > 0 ELSE purged
    /\ UNCHANGED <<closed, codec, conc, pair>>

DoPartition ==
    /\ ret = Idle
    /\ \E packets \in Batches :
         \E fails \in FailSets(packets) :
           \E r \in PartitionResults(db, packets, fails) :
             ret' = [Idle EXCEPT !.op = "Partition", !.batch = packets,
                                 !.res = r.res, !.err = r.err]
    /\ UNCHANGED <<db, closed, hist, purged, codec, conc, pair>>

DoClose ==
    /\ ret = Idle
    /\ ~closed
    /\ \E engineOk \in EngineModes :
         LET r == Close(closed, engineOk)
         IN  /\ closed' = r.closed
             /\ ret' = [Idle EXCEPT !.op = "Close", !.err = r.err]
    /\ UNCHANGED <<db, hist, purged, codec, conc, pair>>

Return ==
    /\ ret # Idle
    /\ ret' = Idle
    /\ UNCHANGED <<db, closed, hist, purged, codec, conc, pair>>

Next == DoLookup \/ DoStore \/ DoReset \/ DoPartition \/ DoClose \/ Return

Spec == Init /\ [][Next]_vars

(***************************************************************************)
(* Vocabulary of the properties.                                           *)
(***************************************************************************)
Range(seq) == {seq[i] : i \in 1..Len(seq)}

\* The packet's integrity check succeeds under the key.
Validates(packet, key) == packet.mic[key] = "ok"

\* The packet's integrity check succeeds under the key and under no other.
ValidatesOnly(packet, key) ==
    \A k \in NwkSKeys : Validates(packet, k) <=> k = key

\* The packet has a readable address and some entry stored under it
\* validates the packet.
Matches(packet) ==
    /\ packet.addr \in DevAddrs
    /\ \E e \in Range(hist[packet.addr]) : Validates(packet, e.NwkSKey)

\* s can be obtained from t by leaving elements out.
RECURSIVE IsSubseq(_, _)
IsSubseq(s, t) ==
    IF s = <<>> THEN TRUE
    ELSE IF t = <<>> THEN FALSE
    ELSE IF Head(s) = Head(t) THEN IsSubseq(Tail(s), Tail(t))
    ELSE IsSubseq(s, Tail(t))

Returned(op)   == ret.op = op
ReturnedOk(op) == ret.op = op /\ ret.err = NoErr
\* The call met no failure of the key-value engine.
EngineHeld == ret.err # ErrStorage

AllEmpty == \A a \in DevAddrs : Lookup(db, a, TRUE) = [entries |-> <<>>, err |-> NoErr]

(***************************************************************************)
(* Properties.                                                             *)
(***************************************************************************)

\* C1: a successful Lookup(addr) returns exactly the entries stored with
\* success under addr since the last Reset, in the order of their Store calls.
C1_LookupReturnsStored ==
    ReturnedOk("Lookup") => ret.entries = hist[ret.addr]

\* A Lookup that returned two different entries stored one after the other.
C1_Witness ==
    /\ ReturnedOk("Lookup")
    /\ Len(ret.entries) = 2
    /\ ret.entries[1] # ret.entries[2]
    /\ ret.entries = hist[ret.addr]

\* C2: a successful Store(addr, e) appends exactly one entry under addr: what
\* Lookup(addr) returns afterwards is what it returned before followed by e
\* (also when e was there already), and every other address keeps its entries.
C2_StoreAppendsOne ==
    [][ (ret = Idle /\ ret'.op = "Store" /\ ret'.err = NoErr) =>
          LET a      == ret'.addr
              before == Lookup(db, a, TRUE)
              after  == Lookup(db', a, TRUE)
          IN  /\ before.err = NoErr
              /\ after.err = NoErr
              /\ after.entries = Append(before.entries, ret'.entry)
              /\ \A b \in DevAddrs \ {a} : db'[b] = db[b] ]_vars

\* A Store that has put a second copy of an entry under the same address.
C2_Witness ==
    /\ ReturnedOk("Store")
    /\ Lookup(db, ret.addr, TRUE).entries = <<ret.entry, ret.entry>>

\* C3: with exactly two entries e1 and e2 stored under one address, a packet
\* of that address that validates only under the key of e2 is, in a
\* successful Partition, in a partition whose snapshot is e2 and in no
\* partition whose snapshot is e1.
C3_CollisionResolution ==
    ReturnedOk("Partition") =>
        \A i \in 1..Len(ret.batch) : \A e1, e2 \in Entries :
            LET p == ret.batch[i]
            IN  ( /\ p.addr \in DevAddrs
                  /\ hist[p.addr] \in {<<e1, e2>>, <<e2, e1>>}
                  /\ e1.NwkSKey # e2.NwkSKey
                  /\ ValidatesOnly(p, e2.NwkSKey) )
                => /\ \E j \in 1..Len(ret.res) :
                        ret.res[j].entry = e2 /\ p \in Range(ret.res[j].Packets)
                   /\ \A j \in 1..Len(ret.res) :
                        ret.res[j].entry = e1 => p \notin Range(ret.res[j].Packets)

\* C4: a Partition call in which every packet has a readable address and
\* validates under none of the entries stored under it (or none is stored)
\* fails with ErrNotFound and returns no partition.
C4_NoMatchIsNotFound ==
    ( /\ Returned("Partition")
      /\ EngineHeld
      /\ \A i \in 1..Len(ret.batch) :
            ret.batch[i].addr \in DevAddrs /\ ~Matches(ret.batch[i]) )
    => ret.err = ErrNotFound /\ ret.res = <<>>

\* A batch with a packet whose address has no entry and a packet whose
\* address has entries none of which validates it, answered ErrNotFound.
C4_Witness ==
    /\ Returned("Partition")
    /\ ret.err = ErrNotFound
    /\ \E i, j \in 1..Len(ret.batch) :
          /\ ret.batch[i].addr \in DevAddrs
          /\ hist[ret.batch[i].addr] = <<>>
          /\ ret.batch[j].addr \in DevAddrs
          /\ hist[ret.batch[j].addr] # <<>>
          /\ ~Matches(ret.batch[j])

\* C5: Lookup on an address under which nothing is stored (never stored, or
\* cleared by Reset) returns an empty list and no error.
C5_LookupEmptyIsNoError ==
    (Returned("Lookup") /\ EngineHeld /\ hist[ret.addr] = <<>>)
    => ret.err = NoErr /\ ret.entries = <<>>

\* A Lookup answered with the empty list after a Reset removed the entries.
C5_Witness ==
    /\ ReturnedOk("Lookup")
    /\ ret.entries = <<>>
    /\ purged

\* C6: after a successful Reset every address looks up empty; a later
\* Lookup returns the entries stored since the Reset and none from before.
C6_ResetClearsAll ==
    /\ ReturnedOk("Reset") => AllEmpty
    /\ purged => AllEmpty
    /\ ReturnedOk("Lookup") =>
          /\ Len(ret.entries) = Len(hist[ret.addr])
          /\ Range(ret.entries) = Range(hist[ret.addr])

\* A Reset that has removed entries.
C6_Witness ==
    /\ ReturnedOk("Reset")
    /\ purged
    /\ AllEmpty

\* C7: a batch with a packet whose address cannot be read makes Partition
\* fail with ErrInvalidStructure and return no partition, wherever the
\* packet sits and whatever the other packets would match.
C7_MalformedBatchAborts ==
    ( /\ Returned("Partition")
      /\ EngineHeld
      /\ \E i \in 1..Len(ret.batch) : ret.batch[i].addr = NoAddr )
    => ret.err = ErrInvalidStructure /\ ret.res = <<>>

\* A batch whose second packet has no address, between two packets that
\* match stored entries, answered ErrInvalidStructure.
C7_Witness ==
    /\ Returned("Partition")
    /\ ret.err = ErrInvalidStructure
    /\ Len(ret.batch) = 3
    /\ Matches(ret.batch[1])
    /\ ret.batch[2].addr = NoAddr
    /\ Matches(ret.batch[3])

\* C8: in every partition returned, the packets stand in the order in which
\* the batch gave them.
C8_OrderPreserved ==
    Returned("Partition") =>
        \A j \in 1..Len(ret.res) : IsSubseq(ret.res[j].Packets, ret.batch)

\* A partition with two different packets, the batch having a packet of
\* another partition or of none between them.
C8_Witness ==
    /\ ReturnedOk("Partition")
    /\ Len(ret.batch) = 3
    /\ \E j \in 1..Len(ret.res) :
          /\ ret.res[j].Packets = <<ret.batch[1], ret.batch[3]>>
          /\ ret.batch[1] # ret.batch[3]

\* C9: Partition returns either partitions and no error, and then at least
\* one partition and at least one packet in each, or an error and no
\* partition.
C9_ResultOrError ==
    Returned("Partition") =>
        \/ /\ ret.err = NoErr
           /\ ret.res # <<>>
           /\ \A j \in 1..Len(ret.res) : ret.res[j].Packets # <<>>
        \/ /\ ret.err # NoErr
           /\ ret.res = <<>>

\* A call that failed on its second packet after its first had matched.
C9_Witness ==
    /\ Returned("Partition")
    /\ ret.err # NoErr
    /\ ret.res = <<>>
    /\ Len(ret.batch) = 2
    /\ Matches(ret.batch[1])

\* C10: with e1 (application X, key K1) and e2 (application Y, key K2) stored
\* under address A, Partition(p1, p2, p3) of three packets of address A, p1
\* valid only under K1, p2 only under K2, p3 under neither, returns exactly
\* the partition X|A with [p1] and the partition Y|A with [p2].
C10_EndToEnd ==
    \A p3 \in Packets :
        ( /\ Returned("Partition")
          /\ EngineHeld
          /\ hist[AddrA] \in {<<Entry1, Entry2>>, <<Entry2, Entry1>>}
          /\ p3.addr = AddrA
          /\ \A k \in NwkSKeys : ~Validates(p3, k)
          /\ ret.batch = << [addr |-> AddrA, mic |-> MicK1],
                            [addr |-> AddrA, mic |-> MicK2], p3 >> )
        => /\ ret.err = NoErr
           /\ Len(ret.res) = 2
           /\ Range(ret.res) =
                { [entry |-> Entry1, Id |-> AppX \o AddrA,
                   Packets |-> << [addr |-> AddrA, mic |-> MicK1] >>],
                  [entry |-> Entry2, Id |-> AppY \o AddrA,
                   Packets |-> << [addr |-> AddrA, mic |-> MicK2] >>] }

\* The scenario has run and returned its two partitions.
C10_Witness ==
    /\ ReturnedOk("Partition")
    /\ hist[AddrA] = <<Entry1, Entry2>>
    /\ ret.batch = << [addr |-> AddrA, mic |-> MicK1],
                      [addr |-> AddrA, mic |-> MicK2],
                      [addr |-> AddrA, mic |-> MicNone] >>
    /\ Len(ret.res) = 2

\* The packet has a readable address and no entry stored under it validates it.
Unmatched(packet) == packet.addr \in DevAddrs /\ ~Matches(packet)

\* The sequence without its i-th element.
Without(seq, i) ==
    [k \in 1..(Len(seq) - 1) |-> IF k < i THEN seq[k] ELSE seq[k + 1]]

\* What Partition can return for the packets on the registry as it is, the
\* engine not failing: the partitions as a set, and the error.
Outcomes(packets) ==
    {[parts |-> Range(r.res), err |-> r.err] : r \in PartitionResults(db, packets, {})}

\* C11: a packet with a readable address that no candidate validates is in
\* no returned partition and changes nothing else: the call returns what it
\* returns for the batch without that packet, and it succeeds when all
\* packets are readable and one of them matches.
C11_SilentDrop ==
    (Returned("Partition") /\ EngineHeld) =>
        \A i \in 1..Len(ret.batch) :
            Unmatched(ret.batch[i]) =>
                /\ \A j \in 1..Len(ret.res) :
                      ret.batch[i] \notin Range(ret.res[j].Packets)
                /\ [parts |-> Range(ret.res), err |-> ret.err]
                      \in Outcomes(Without(ret.batch, i))
                /\ ( /\ \A k \in 1..Len(ret.batch) : ret.batch[k].addr \in DevAddrs
                     /\ \E k \in 1..Len(ret.batch) : Matches(ret.batch[k]) )
                   => ret.err = NoErr

\* A successful call whose second packet found no validating candidate
\* among the entries of its address, between two packets that matched.
C11_Witness ==
    /\ ReturnedOk("Partition")
    /\ Len(ret.batch) = 3
    /\ Matches(ret.batch[1])
    /\ Unmatched(ret.batch[2])
    /\ hist[ret.batch[2].addr] # <<>>
    /\ Matches(ret.batch[3])

\* C14: Lookup, Close and Partition leave the stored entries as they are,
\* whether they succeed or fail; the bucket changes only in a successful
\* Store or Reset.
C14_ReadOnlyCalls ==
    [][ /\ (ret = Idle /\ ret'.op \in {"Lookup", "Close", "Partition"}) =>
              /\ db' = db
              /\ \A a \in DevAddrs : Lookup(db', a, TRUE) = Lookup(db, a, TRUE)
        /\ db' # db => (ret'.op \in {"Store", "Reset"} /\ ret'.err = NoErr) ]_vars

\* A Lookup has returned two entries and the bucket still holds them.
C14_Witness ==
    /\ ReturnedOk("Lookup")
    /\ Len(ret.entries) = 2
    /\ Lookup(db, ret.addr, TRUE).entries = ret.entries

\* C15: once Close has released the handle, every Lookup, Store, Reset or
\* Partition returns an error, returns neither entries nor partitions, and
\* leaves the stored entries as they are.
C15_NothingAfterClose ==
    [][ (closed /\ ret = Idle /\ ret'.op \in {"Lookup", "Store", "Reset", "Partition"}) =>
          /\ ret'.err # NoErr
          /\ ret'.entries = <<>>
          /\ ret'.res = <<>>
          /\ db' = db ]_vars

\* On a released handle that holds entries, a Partition of a packet that
\* one of them validates has returned an error.
C15_Witness ==
    /\ closed
    /\ Returned("Partition")
    /\ Len(ret.batch) = 1
    /\ Matches(ret.batch[1])
    /\ ret.err # NoErr

\* The first entry, in the order Lookup returns them, whose network session
\* key validates the packet.
FirstValidating(packet) ==
    LET cands == hist[packet.addr]
        k     == CHOOSE i \in 1..Len(cands) :
                     /\ Validates(packet, cands[i].NwkSKey)
                     /\ \A j \in 1..(i - 1) : ~Validates(packet, cands[j].NwkSKey)
    IN  cands[k]

\* C18: a packet that some candidate validates is in the partition of the
\* first validating candidate in Lookup order, and in no partition of
\* another id, also when several candidates validate it.
C18_FirstMatchWins ==
    ReturnedOk("Partition") =>
        \A i \in 1..Len(ret.batch) :
            Matches(ret.batch[i]) =>
                LET first == FirstValidating(ret.batch[i])
                    id    == first.AppEUI \o first.DevAddr
                IN  /\ \E j \in 1..Len(ret.res) : ret.res[j].Id = id
                    /\ \A j \in 1..Len(ret.res) :
                          ret.batch[i] \in Range(ret.res[j].Packets) <=> ret.res[j].Id = id

\* Two candidates of different applications validate the packet.
C18_Witness ==
    /\ ReturnedOk("Partition")
    /\ hist[AddrA] = <<Entry2, Entry3>>
    /\ ret.batch = << [addr |-> AddrA, mic |-> MicK2] >>
    /\ Len(ret.res) = 1
    /\ ret.res[1].Id = AppY \o AddrA

\* C19: every packet of a partition validates under the network session
\* key of the partition's snapshot.
C19_SnapshotValidates ==
    ReturnedOk("Partition") =>
        \A j \in 1..Len(ret.res) :
            \A p \in Range(ret.res[j].Packets) :
                Validates(p, ret.res[j].entry.NwkSKey)

\* C20: a partition's id is the application id followed by the short
\* address of its snapshot, 12 bytes, and the ids of a result are distinct.
C20_IdOfSnapshot ==
    Returned("Partition") =>
        /\ \A j \in 1..Len(ret.res) :
              /\ ret.res[j].Id = ret.res[j].entry.AppEUI \o ret.res[j].entry.DevAddr
              /\ Len(ret.res[j].Id) = EUILen + AddrLen
        /\ \A j, k \in 1..Len(ret.res) : ret.res[j].Id = ret.res[k].Id => j = k

\* A result of two partitions, one of them holding two packets.
C20_Witness ==
    /\ ReturnedOk("Partition")
    /\ Len(ret.res) = 2
    /\ \E j \in 1..2 : ret.res[j].Id = AppY \o AddrA /\ Len(ret.res[j].Packets) = 2

(***************************************************************************)
(* The codec on its own: entries are encoded, encodings are cut short,     *)
(* short byte strings are handed in, and whatever is in hand is decoded.   *)
(***************************************************************************)
MaxInput == 9

\* n bytes that all differ: b+1, b+2, ... modulo 256.
Ramp(n, b) == [i \in 1..n |-> (b + i) % 256]

\* Entries with fields of the declared sizes, of equal and of differing bytes.
CodecEntries ==
    { handlerEntry(app, skey, addr, nwk) :
        app  \in {AppX, Ramp(EUILen, 250)},
        skey \in {SKey, Ramp(KeyLen, 0)},
        addr \in {AddrA, Ramp(AddrLen, 100)},
        nwk  \in {K1, Ramp(KeyLen, 0)} }

\* The byte strings of at most MaxInput bytes over two byte values.
ShortInputs == UNION {[1..n -> {0, 1}] : n \in 0..MaxInput}

\* The length of the encoding of an entry: every field with its prefix.
CompleteLen == Len(MarshalBinary(ZeroEntry))

CodecMarshal ==
    /\ codec.op = "none"
    /\ \E e \in CodecEntries :
         codec' = [CodecIdle EXCEPT !.op = "Marshal", !.entry = e,
                                    !.data = MarshalBinary(e)]
    /\ UNCHANGED <<db, ret, closed, hist, purged, conc, pair>>

\* The encoding in hand loses its tail.
CodecCut ==
    /\ codec.op = "Marshal"
    /\ \E n \in 0..(Len(codec.data) - 1) :
         codec' = [codec EXCEPT !.op = "Cut", !.data = SubSeq(@, 1, n)]
    /\ UNCHANGED <<db, ret, closed, hist, purged, conc, pair>>

CodecInput ==
    /\ codec.op = "none"
    /\ \E data \in ShortInputs :
         codec' = [CodecIdle EXCEPT !.op = "Input", !.data = data]
    /\ UNCHANGED <<db, ret, closed, hist, purged, conc, pair>>

CodecUnmarshal ==
    /\ codec.op \in {"Marshal", "Cut", "Input"}
    /\ LET r == UnmarshalBinary(codec.data)
       IN  codec' = [codec EXCEPT !.op = "Unmarshal", !.from = codec.op,
                                  !.out = r.entry, !.err = r.err]
    /\ UNCHANGED <<db, ret, closed, hist, purged, conc, pair>>

CodecReturn ==
    /\ codec.op = "Unmarshal"
    /\ codec' = CodecIdle
    /\ UNCHANGED <<db, ret, closed, hist, purged, conc, pair>>

NextCodec == CodecMarshal \/ CodecCut \/ CodecInput \/ CodecUnmarshal \/ CodecReturn

SpecCodec == Init /\ [][NextCodec]_vars

\* C16: decoding the encoding of an entry succeeds and gives back the
\* entry, field by field and at the declared sizes.
C16_RoundTrip ==
    (codec.op = "Unmarshal" /\ codec.from = "Marshal") =>
        /\ codec.err = NoErr
        /\ codec.out.AppEUI  = codec.entry.AppEUI  /\ Len(codec.out.AppEUI)  = EUILen
        /\ codec.out.AppSKey = codec.entry.AppSKey /\ Len(codec.out.AppSKey) = KeyLen
        /\ codec.out.DevAddr = codec.entry.DevAddr /\ Len(codec.out.DevAddr) = AddrLen
        /\ codec.out.NwkSKey = codec.entry.NwkSKey /\ Len(codec.out.NwkSKey) = KeyLen

\* An entry whose fields hold differing bytes, and whose two keys differ,
\* has gone through the codec.
C16_Witness ==
    /\ codec.op = "Unmarshal"
    /\ codec.from = "Marshal"
    /\ codec.entry = handlerEntry(Ramp(EUILen, 250), SKey, Ramp(AddrLen, 100), Ramp(KeyLen, 0))
    /\ codec.out = codec.entry

\* C17: decoding any byte string shorter than a complete encoding fails
\* with ErrInvalidStructure.
C17_TruncationRejected ==
    (codec.op = "Unmarshal" /\ Len(codec.data) < CompleteLen) =>
        codec.err = ErrInvalidStructure

(***************************************************************************)
(* Concurrent callers of one storage.  Lookup and Store are one            *)
(* transaction of the engine each, and the engine runs transactions one    *)
(* at a time; Partition makes one Lookup per packet, and other callers'    *)
(* transactions can run between them.                                      *)
(***************************************************************************)
MaxConcBatch == 2

\* The packets the concurrent reader partitions.
ConcPackets ==
    { [addr |-> AddrA, mic |-> MicK1], [addr |-> AddrA, mic |-> MicK2] }

ConcBatches == UNION {[1..n -> ConcPackets] : n \in 0..MaxConcBatch}

\* The Store calls the concurrent writers make: under one address and
\* under different addresses.
ConcStoreCalls == {<<AddrA, Entry1>>, <<AddrA, Entry2>>, <<AddrB, Entry1>>}

\* The Store calls that have been made and have not yet run.
Pending == {c \in Writers : conc.w[c].pc = "called"}

\* A writer calls Store.
StoreCall(c) ==
    /\ conc.w[c].pc = "idle"
    /\ TotalEntries(db) + Cardinality(Pending) < MaxEntries
    /\ \E call \in ConcStoreCalls :
         conc' = [conc EXCEPT !.w[c] = [pc |-> "called", addr |-> call[1],
                                        entry |-> call[2], err |-> NoErr]]
    /\ UNCHANGED <<db, ret, closed, hist, purged, codec, pair>>

\* The transaction of a Store call runs; it is noted whether the other
\* writer's call is in progress at that moment.
StoreCommit(c) ==
    /\ conc.w[c].pc = "called"
    /\ LET w == conc.w[c]
           r == Store(db, w.addr, w.entry, TRUE)
       IN  /\ db' = r.db
           /\ hist' = IF r.err = NoErr
                      THEN [hist EXCEPT ![w.addr] = Append(@, w.entry)]
                      ELSE hist
           /\ conc' = [conc EXCEPT
                         !.w[c] = [w EXCEPT !.pc = "done", !.err = r.err],
                         !.raced = @ \/ \E o \in Writers \ {c} : conc.w[o].pc # "idle"]
    /\ UNCHANGED <<ret, closed, purged, codec, pair>>

\* A Store call returns to its caller.
StoreReturn(c) ==
    /\ conc.w[c].pc = "done"
    /\ LET w == conc.w[c]
       IN  conc' = [conc EXCEPT
                      !.w[c] = WriterIdle,
                      !.acked = IF w.err = NoErr
                                THEN [@ EXCEPT ![w.addr][w.entry] = @ + 1]
                                ELSE @]
    /\ UNCHANGED <<db, ret, closed, hist, purged, codec, pair>>

\* The reader calls Lookup; the Stores that have returned by now are noted.
LookupCall ==
    /\ conc.r.pc = "idle"
    /\ \E devAddr \in DevAddrs :
         conc' = [conc EXCEPT !.r = [ReaderIdle EXCEPT !.pc = "called", !.op = "Lookup",
                                                       !.addr = devAddr,
                                                       !.acked = conc.acked[devAddr]]]
    /\ UNCHANGED <<db, ret, closed, hist, purged, codec, pair>>

\* The transaction of the Lookup call runs.
LookupRun ==
    /\ conc.r.pc = "called"
    /\ conc.r.op = "Lookup"
    /\ LET l == Lookup(db, conc.r.addr, TRUE)
       IN  conc' = [conc EXCEPT !.r.pc = "done", !.r.entries = l.entries,
                                !.r.err = l.err]
    /\ UNCHANGED <<db, ret, closed, hist, purged, codec, pair>>

\* The reader calls Partition.
PartitionCall ==
    /\ conc.r.pc = "idle"
    /\ \E packets \in ConcBatches :
         conc' = [conc EXCEPT !.r = [ReaderIdle EXCEPT !.pc = "called", !.op = "Partition",
                                                       !.batch = packets, !.i = 1]]
    /\ UNCHANGED <<db, ret, closed, hist, purged, codec, pair>>

\* One pass of Partition's loop over the packets: the address is read,
\* the candidates are looked up, the first match is filed.
PartitionIter(bucket, partitions, packet) ==
    LET d == DevAddr(packet)
    IN  IF d.err # NoErr THEN Abort(partitions, BadPacket(d.err))
        ELSE LET l == Lookup(bucket, d.devAddr, TRUE)
             IN  IF l.err # NoErr THEN Abort(partitions, l.err)
                 ELSE [partitions |-> PartitionStep(partitions, packet, l.entries),
                       err        |-> NoErr]

\* What Partition returns once the loop has completed.
PartitionEnd(partitions) ==
    IF DOMAIN partitions = {}
    THEN {[res |-> <<>>, err |-> ErrNotFound]}
    ELSE {[res |-> o, err |-> NoErr] : o \in Orders(partitions)}

\* Variant: the candidates are those of the bucket as the first pass saw it.
PartitionPacket_Cached ==
    /\ conc.r.pc = "called"
    /\ conc.r.op = "Partition"
    /\ conc.r.i <= Len(conc.r.batch)
    /\ LET r      == conc.r
           bucket == IF r.seen = <<>> THEN db ELSE r.seen[1]
           out    == PartitionIter(bucket, r.partitions, r.batch[r.i])
       IN  conc' = [conc EXCEPT !.r =
                      IF out.err # NoErr
                      THEN [r EXCEPT !.pc = "done", !.partitions = out.partitions,
                                     !.err = out.err]
                      ELSE [r EXCEPT !.i = @ + 1, !.partitions = out.partitions,
                                     !.seen = Append(@, db)]]
    /\ UNCHANGED <<db, ret, closed, hist, purged, codec, pair>>

\* The in-flight Partition call handles its next packet; the bucket it
\* looked into is noted.
PartitionPacket ==
    /\ conc.r.pc = "called"
    /\ conc.r.op = "Partition"
    /\ conc.r.i <= Len(conc.r.batch)
    /\ LET r   == conc.r
           out == PartitionIter(db, r.partitions, r.batch[r.i])
       IN  conc' = [conc EXCEPT !.r =
                      IF out.err # NoErr
                      THEN [r EXCEPT !.pc = "done", !.partitions = out.partitions,
                                     !.err = out.err]
                      ELSE [r EXCEPT !.i = @ + 1, !.partitions = out.partitions,
                                     !.seen = Append(@, db)]]
    /\ UNCHANGED <<db, ret, closed, hist, purged, codec, pair>>

\* The loop is over: the map is turned into the result.
PartitionFinish ==
    /\ conc.r.pc = "called"
    /\ conc.r.op = "Partition"
    /\ conc.r.i > Len(conc.r.batch)
    /\ \E o \in PartitionEnd(conc.r.partitions) :
         conc' = [conc EXCEPT !.r.pc = "done", !.r.res = o.res, !.r.err = o.err]
    /\ UNCHANGED <<db, ret, closed, hist, purged, codec, pair>>

\* The reader's call returns to its caller.
ReaderReturn ==
    /\ conc.r.pc = "done"
    /\ conc' = [conc EXCEPT !.r = ReaderIdle]
    /\ UNCHANGED <<db, ret, closed, hist, purged, codec, pair>>

NextConc ==
    \/ \E c \in Writers : StoreCall(c) \/ StoreCommit(c) \/ StoreReturn(c)
    \/ LookupCall \/ LookupRun
    \/ PartitionCall \/ PartitionPacket \/ PartitionFinish
    \/ ReaderReturn

SpecConc == Init /\ [][NextConc]_vars

\* How often x occurs in a sequence.
Occurrences(seq, x) == Cardinality({k \in 1..Len(seq) : seq[k] = x})

\* C12: a Lookup that was called after Stores under its address had
\* returned with success returns every one of their entries, as often as
\* it was stored, however the Store calls overlapped.
C12_NoLostStore ==
    (conc.r.pc = "done" /\ conc.r.op = "Lookup") =>
        /\ conc.r.err = NoErr
        /\ \A e \in Entries : Occurrences(conc.r.entries, e) >= conc.r.acked[e]

\* Two Store calls under one address overlapped, both returned with
\* success, and a Lookup called afterwards has returned both entries.
C12_Witness ==
    /\ conc.raced
    /\ conc.r.pc = "done"
    /\ conc.r.op = "Lookup"
    /\ conc.r.addr = AddrA
    /\ conc.r.acked[Entry1] = 1
    /\ conc.r.acked[Entry2] = 1
    /\ Range(conc.r.entries) = {Entry1, Entry2}

\* Some entry stored under the packet's address in the bucket validates it.
MatchesIn(packet, bucket) ==
    \E e \in Range(Lookup(bucket, packet.addr, TRUE).entries) :
        Validates(packet, e.NwkSKey)

\* How often a packet occurs in the partitions of a result.
RECURSIVE Filed(_, _)
Filed(res, packet) ==
    IF res = <<>> THEN 0
    ELSE Occurrences(res[1].Packets, packet) + Filed(Tail(res), packet)

\* C13: a Partition call resolves each packet against the bucket as it is
\* at that packet's own Lookup, so a Store that runs between two Lookups
\* of the call is missed by the earlier packet and seen by the later one:
\* a packet is filed as often as it occurs at positions where the bucket
\* then held an entry validating it, and the call fails with ErrNotFound
\* exactly when there is no such position.
C13_PerPacketView ==
    (conc.r.pc = "done" /\ conc.r.op = "Partition") =>
        LET r    == conc.r
            Hits == {i \in 1..Len(r.batch) : MatchesIn(r.batch[i], r.seen[i])}
        IN  /\ Len(r.seen) = Len(r.batch)
            /\ r.err = IF Hits = {} THEN ErrNotFound ELSE NoErr
            /\ \A p \in Range(r.batch) :
                  Filed(r.res, p) = Cardinality({i \in Hits : r.batch[i] = p})

\* A Store under the packets' address ran between the two Lookups of a
\* call: the first packet was resolved without the new entry, the second
\* with it, and what the call returned is neither what Partition returns
\* on the bucket before the Store nor what it returns on the bucket after.
C13_Witness ==
    /\ conc.r.pc = "done"
    /\ conc.r.op = "Partition"
    /\ Len(conc.r.batch) = 2
    /\ conc.r.batch[1].addr = conc.r.batch[2].addr
    /\ Len(conc.r.seen[2][conc.r.batch[1].addr]) = Len(conc.r.seen[1][conc.r.batch[1].addr]) + 1
    /\ ~MatchesIn(conc.r.batch[1], conc.r.seen[1])
    /\ MatchesIn(conc.r.batch[1], conc.r.seen[2])
    /\ MatchesIn(conc.r.batch[2], conc.r.seen[2])
    /\ [res |-> conc.r.res, err |-> conc.r.err]
           \notin PartitionResults(conc.r.seen[1], conc.r.batch, {})
                      \cup PartitionResults(conc.r.seen[2], conc.r.batch, {})

\* C23: a packet is filed at most as often as it occurs in the batch, so
\* no batch position is filed twice, in one partition or in two, and the
\* partitions together hold at most as many packets as the batch.
C23_AtMostOnce ==
    Returned("Partition") =>
        /\ \A p \in Range(ret.batch) : Filed(ret.res, p) <= Occurrences(ret.batch, p)
        /\ \A j \in 1..Len(ret.res) :
              \A p \in Range(ret.res[j].Packets) : p \in Range(ret.batch)
        /\ \A j, k \in 1..Len(ret.res) :
              j # k => \A p \in Range(ret.res[j].Packets) : p \notin Range(ret.res[k].Packets)

\* Two candidates of different ids validate a packet that occurs twice in
\* the batch next to one that nothing validates: one partition, two packets.
C23_Witness ==
    /\ ReturnedOk("Partition")
    /\ hist[AddrA] = <<Entry2, Entry3>>
    /\ ret.batch = << [addr |-> AddrA, mic |-> MicK2], [addr |-> AddrA, mic |-> MicK2],
                      [addr |-> AddrA, mic |-> MicNone] >>
    /\ Len(ret.res) = 1
    /\ Len(ret.res[1].Packets) = 2

\* C24: every packet of a partition has the address that the last four
\* bytes of the partition's id spell.
C24_AddrOfId ==
    ReturnedOk("Partition") =>
        \A j \in 1..Len(ret.res) :
            \A p \in Range(ret.res[j].Packets) :
                p.addr = SubSeq(ret.res[j].Id, EUILen + 1, EUILen + AddrLen)

\* C26: Partition of an empty batch fails with ErrNotFound and returns no
\* partitions, whatever the bucket holds and whatever the engine would do
\* with a Lookup.
C26_EmptyBatchNotFound ==
    (Returned("Partition") /\ ret.batch = <<>>) =>
        /\ ret.err = ErrNotFound
        /\ ret.res = <<>>

\* On a released handle, where every Lookup fails, with entries stored.
C26_Witness ==
    /\ closed
    /\ Returned("Partition")
    /\ ret.batch = <<>>
    /\ ret.err = ErrNotFound
    /\ TotalEntries(db) = MaxEntries

(***************************************************************************)
(* Two Partition calls in a row on one batch, with what each call was      *)
(* given on record: the batch, which of its Lookups met an engine failure, *)
(* and whether the bucket was changed after the first call.  The bucket is *)
(* filled through Store, and a stored blob can lose its tail on the medium.*)
(***************************************************************************)
MaxPairBatch == 2

\* A payload whose check fails under K1 and validates under K2.
MicErrK2 == (K1 :> "err") @@ (K2 :> "ok")

PairPackets ==
    { [addr |-> AddrA, mic |-> MicK1], [addr |-> AddrA, mic |-> MicErrK2],
      [addr |-> AddrB, mic |-> MicK1] }

PairBatches == UNION {[1..n -> PairPackets] : n \in 0..MaxPairBatch}

\* The last blob stored under an address without its last byte.
CutLast(blobs) ==
    [k \in 1..Len(blobs) |->
        IF k = Len(blobs) THEN SubSeq(blobs[k], 1, Len(blobs[k]) - 1) ELSE blobs[k]]

PairStore ==
    /\ pair.phase \in {"none", "first"}
    /\ TotalEntries(db) < MaxEntries
    /\ \E call \in StoreCalls :
         LET r == Store(db, call[1], call[2], TRUE)
         IN  /\ db' = r.db
             /\ hist' = [hist EXCEPT ![call[1]] = Append(@, call[2])]
    /\ purged' = FALSE
    /\ pair' = [pair EXCEPT !.touched = (pair.phase = "first")]
    /\ UNCHANGED <<ret, closed, codec, conc>>

PairReset ==
    /\ pair.phase \in {"none", "first"}
    /\ TotalEntries(db) > 0
    /\ db' = Reset(db, TRUE).db
    /\ hist' = [a \in DevAddrs |-> <<>>]
    /\ purged' = TRUE
    /\ pair' = [pair EXCEPT !.touched = (pair.phase = "first")]
    /\ UNCHANGED <<ret, closed, codec, conc>>

\* A complete blob, the last under its address, loses its last byte.
PairCorrupt ==
    /\ pair.phase = "none"
    /\ \E a \in DevAddrs :
         /\ db[a] # <<>>
         /\ Len(db[a][Len(db[a])]) = CompleteLen
         /\ db' = [db EXCEPT ![a] = CutLast(@)]
    /\ UNCHANGED <<ret, closed, hist, purged, codec, conc, pair>>

\* The first call.
PairFirst ==
    /\ pair.phase = "none"
    /\ \E packets \in PairBatches :
         \E fails \in FailSets(packets) :
           \E r \in PartitionResults(db, packets, fails) :
             pair' = [PairIdle EXCEPT !.phase = "first", !.batch = packets,
                                      !.fails1 = fails, !.out1 = r]
    /\ UNCHANGED <<db, ret, closed, hist, purged, codec, conc>>

\* Variant: the map of the first call is kept and the second call adds to it.
PairSecond_Reuses ==
    /\ pair.phase = "first"
    /\ \E fails \in FailSets(pair.batch) :
         LET kept == [id \in {pair.out1.res[j].Id : j \in 1..Len(pair.out1.res)} |->
                         CHOOSE part \in Range(pair.out1.res) : part.Id = id]
             out  == PartitionLoop(db, pair.batch, fails, 1, kept)
         IN  \E r \in IF out.err # NoErr
                      THEN {[res |-> <<>>, err |-> out.err]}
                      ELSE PartitionEnd(out.partitions) :
               pair' = [pair EXCEPT !.phase = "second", !.fails2 = fails, !.out2 = r]
    /\ UNCHANGED <<db, ret, closed, hist, purged, codec, conc>>

\* The second call, on the batch of the first.
PairSecond ==
    /\ pair.phase = "first"
    /\ \E fails \in FailSets(pair.batch) :
         \E r \in PartitionResults(db, pair.batch, fails) :
           pair' = [pair EXCEPT !.phase = "second", !.fails2 = fails, !.out2 = r]
    /\ UNCHANGED <<db, ret, closed, hist, purged, codec, conc>>

\* Both calls have returned.
PairReturn ==
    /\ pair.phase = "second"
    /\ pair' = PairIdle
    /\ UNCHANGED <<db, ret, closed, hist, purged, codec, conc>>

NextPair ==
    PairStore \/ PairReset \/ PairCorrupt \/ PairFirst \/ PairSecond \/ PairReturn

SpecPair == Init /\ [][NextPair]_vars

\* The Lookup the call makes for the i-th packet of the pair's batch fails:
\* the engine fails or a blob under the packet's address does not decode.
LookupFails(i, fails) ==
    \/ i \in fails
    \/ \E blob \in Range(db[pair.batch[i].addr]) : UnmarshalBinary(blob).err # NoErr

\* C21: when a Lookup of the call fails, the call returns the error of the
\* first Lookup that failed, ErrStorage for an engine failure and
\* ErrInvalidStructure for a stored blob that does not decode, and no
\* partitions, also when earlier packets were matched.
C21_LookupFailureAborts ==
    (pair.phase = "first" /\ ~pair.touched) =>
        LET Failing == {i \in 1..Len(pair.batch) : LookupFails(i, pair.fails1)}
        IN  Failing # {} =>
                LET f == CHOOSE i \in Failing : \A k \in Failing : i <= k
                IN  /\ pair.out1.res = <<>>
                    /\ pair.out1.err = IF f \in pair.fails1 THEN ErrStorage
                                       ELSE ErrInvalidStructure

\* The first packet was matched; the Lookup for the second met a blob that
\* does not decode.
C21_Witness ==
    /\ pair.phase = "first"
    /\ ~pair.touched
    /\ pair.batch = << [addr |-> AddrB, mic |-> MicK1], [addr |-> AddrA, mic |-> MicK1] >>
    /\ MatchesIn(pair.batch[1], db)
    /\ pair.fails1 = {}
    /\ LookupFails(2, {})
    /\ pair.out1 = [res |-> <<>>, err |-> ErrInvalidStructure]

CheckFails(packet, key) == packet.mic[key] = "err"

\* C25: a packet whose check fails with an error for some candidate makes
\* the call neither abort nor report an error of its own; it is filed
\* under the first candidate that validates it, whether that candidate
\* comes before or after the one on which the check failed, and nowhere
\* when no candidate validates it.
C25_CheckErrorIsMismatch ==
    ( /\ pair.phase = "first"
      /\ ~pair.touched
      /\ \A i \in 1..Len(pair.batch) : ~LookupFails(i, pair.fails1) )
    => \A i \in 1..Len(pair.batch) :
          LET p     == pair.batch[i]
              cands == hist[p.addr]
              Ok    == {k \in 1..Len(cands) : Validates(p, cands[k].NwkSKey)}
          IN  (\E k \in 1..Len(cands) : CheckFails(p, cands[k].NwkSKey)) =>
                /\ pair.out1.err \in {NoErr, ErrNotFound}
                /\ Ok = {} => Filed(pair.out1.res, p) = 0
                /\ Ok # {} =>
                     LET first == cands[CHOOSE k \in Ok : \A m \in Ok : k <= m]
                     IN  \E j \in 1..Len(pair.out1.res) :
                            /\ pair.out1.res[j].Id = first.AppEUI \o first.DevAddr
                            /\ p \in Range(pair.out1.res[j].Packets)

\* The check failed on the first candidate and the packet was filed under
\* the second.
C25_Witness ==
    /\ pair.phase = "first"
    /\ ~pair.touched
    /\ hist[AddrA] = <<Entry1, Entry2>>
    /\ db[AddrA] = <<MarshalBinary(Entry1), MarshalBinary(Entry2)>>
    /\ pair.batch = << [addr |-> AddrA, mic |-> MicErrK2] >>
    /\ pair.fails1 = {}
    /\ pair.out1.err = NoErr
    /\ pair.out1.res[1].Id = AppY \o AddrA

====
